---- MODULE Spec2Model ----
(***************************************************************************)
(* Model of plasma_core/transaction.py: the fixed-arity Plasma Transaction *)
(* record, its construction (pad_list), its canonical encoding and hashes, *)
(* and the in-place sign / confirm slot writes.                            *)
(*                                                                         *)
(* Python lists are mutable objects, so every list lives in `heap` and a   *)
(* Transaction's fields hold references to heap cells.  Byte strings are   *)
(* sequences of numbers 0..255.                                            *)
(***************************************************************************)
EXTENDS Integers, Sequences, FiniteSets, TLC

VARIABLES
    heap,       \* reference -> contents of the list object it names
    tx,         \* per Transaction object: built flag and the references its fields hold
    last,       \* the most recent call and how it ended
    signedBy,   \* per Transaction: per signature slot, key of the latest sign stored there (0: none)
    encoded0,   \* per Transaction: the value of `encoded` right after construction
    calls       \* number of sign / confirm calls made so far

vars == <<heap, tx, last, signedBy, encoded0, calls>>

----------------------------------------------------------------------------
(* Bounds of the model *)

\* longest list the caller hands to the constructor
MaxLen == 3
\* number of sign / confirm calls explored
MaxCalls == 2

----------------------------------------------------------------------------
(* Constants of the program *)

NUM_TXOS == 2

DEFAULT_INPUT == <<0, 0, 0>>

\* plasma_core.constants: 20 zero bytes / a fixed-length all-zero signature
NULL_ADDRESS == [i \in 1..20 |-> 0]

NULL_SIGNATURE == [i \in 1..65 |-> 0]

DEFAULT_OUTPUT == <<NULL_ADDRESS, 0>>

----------------------------------------------------------------------------
(* Byte-string helpers.  An operator that reads an argument many times binds it
   once, as the only member of a set (CHOOSE r \in {f(x) : x \in {arg}} : TRUE is
   f(arg)), so that the argument is evaluated once. *)

\* seq * n for a Python list: n copies of a one-element list
Repeat(v, n) == [i \in 1..(IF n > 0 THEN n ELSE 0) |-> v]

RECURSIVE concat_from(_, _)
\* parts[k] ++ parts[k + 1] ++ ... for a sequence of byte strings
concat_from(parts, k) ==
    IF k > Len(parts) THEN <<>> ELSE parts[k] \o concat_from(parts, k + 1)

\* b''.join(parts)
Concat(parts) == CHOOSE joined \in {concat_from(x, 1) : x \in {parts}} : TRUE

RECURSIVE int_to_big_endian(_)
\* rlp.sedes.big_endian_int.serialize: minimal-width big endian, 0 is the empty string
int_to_big_endian(n) ==
    IF n = 0 THEN <<>> ELSE int_to_big_endian(n \div 256) \o <<n % 256>>

\* rlp length prefix of a payload of `len` bytes (offset 128: string, 192: list)
length_prefix(len, offset) ==
    IF len < 56
    THEN <<offset + len>>
    ELSE <<offset + 55 + Len(int_to_big_endian(len))>> \o int_to_big_endian(len)

\* rlp encoding of one byte string
rlp_bytes(b) ==
    IF Len(b) = 1 /\ b[1] < 128 THEN b ELSE length_prefix(Len(b), 128) \o b

\* rlp encoding of a list whose items are already encoded
rlp_list(items) ==
    CHOOSE e \in {length_prefix(Len(payload), 192) \o payload :
                    payload \in {Concat(items)}} : TRUE

RECURSIVE fold_column(_, _)
\* bytes j, j + 32, j + 64, ... of b and its length folded into one byte
fold_column(b, j) ==
    IF j > Len(b) THEN (Len(b) + 7) % 256
    ELSE ((b[j] + 1) * (2 * j + 1) + fold_column(b, j + 32)) % 256

\* utils.sha3: a 32-byte digest of a byte string (a small stand-in for keccak256:
\* deterministic, fixed width, depends on every byte, its position, and the length)
sha3(b) == CHOOSE d \in {[i \in 1..32 |-> fold_column(x, i)] : x \in {b}} : TRUE

\* value of one hexadecimal ASCII digit
hex_digit(c) == IF c >= 97 THEN c - 87 ELSE IF c >= 65 THEN c - 55 ELSE c - 48

\* decode_hex: pairs of hexadecimal digits to bytes
decode_hex(s) ==
    [i \in 1..(Len(s) \div 2) |-> 16 * hex_digit(s[2 * i - 1]) + hex_digit(s[2 * i])]

\* ethereum.utils.normalize_address on a byte string: strips "0x", decodes 40 hex
\* digits, and accepts only a result of 20 bytes
normalize_address(x) ==
    LET x1 == IF Len(x) = 42 /\ SubSeq(x, 1, 2) = <<48, 120>> THEN SubSeq(x, 3, 42) ELSE x
        x2 == IF Len(x1) = 40 THEN decode_hex(x1) ELSE x1
    IN  [raised |-> IF Len(x2) = 20 THEN "none" ELSE "Exception", value |-> x2]

----------------------------------------------------------------------------
(* plasma_core.utils.signatures: recoverable signatures *)

\* the address a private key derives to
privtoaddr(key) ==
    CHOOSE a \in {[i \in 1..20 |-> (k * 16 + i) % 256] : k \in {key}} : TRUE

\* sign(hash, key): 65 bytes r ++ s ++ v; never the all-zero string
sign(h, key) ==
    CHOOSE sig \in
        {[i \in 1..65 |->
            IF i <= 32 THEN x[i]
            ELSE IF i <= 64 THEN (x[i - 32] + key) % 256
            ELSE 27] : x \in {h}} : TRUE

\* get_signer(hash, signature): the address that signed `hash`; a signature made
\* over another hash recovers to some other address
get_signer(h, sig) == privtoaddr((sig[33] - h[1] + 256) % 256)

----------------------------------------------------------------------------
(* pad_list *)

\* pad_list cutting a longer list down to the required length instead of raising
pad_list_truncating(to_pad, pad_value, required_length) ==
    [raised |-> "none",
     value |-> SubSeq(to_pad \o Repeat(pad_value, required_length - Len(to_pad)),
                      1, required_length)]

\* pad_list putting the pad values in front of the given elements
pad_list_prepending(to_pad, pad_value, required_length) ==
    IF Len(to_pad) > required_length
    THEN [raised |-> "ValueError", value |-> <<>>]
    ELSE [raised |-> "none",
          value |-> Repeat(pad_value, required_length - Len(to_pad)) \o to_pad]

\* pad_list(to_pad, pad_value, required_length): the padded list, or ValueError
pad_list(to_pad, pad_value, required_length) ==
    IF Len(to_pad) > required_length
    THEN [raised |-> "ValueError", value |-> <<>>]
    ELSE [raised |-> "none",
          value |-> to_pad \o Repeat(pad_value, required_length - Len(to_pad))]

----------------------------------------------------------------------------
(* TransactionInput / TransactionOutput *)

\* TransactionInput(*i)
TransactionInput(i) == [blknum |-> i[1], txindex |-> i[2], oindex |-> i[3]]

\* TransactionOutput(*o): the owner is normalized, which may raise
TransactionOutput(o) ==
    LET owner == normalize_address(o[1])
    IN  [raised |-> owner.raised, value |-> [owner |-> owner.value, amount |-> o[2]]]

----------------------------------------------------------------------------
(* The objects of the model *)

\* the Transaction objects the caller creates
Txs == {1, 2}

\* a reference names a list object: <<0, p>> is the list bound to constructor
\* parameter p (the caller's list, or the function's shared default [] when the
\* argument is omitted: both are one object seen by every call); <<t, f>> is a
\* list allocated while constructing Transaction t
Arg(p) == <<0, p>>

Params == {"inputs", "outputs", "signatures", "confirmations"}

FieldNames == Params \cup {"spent"}

Refs ==
    {Arg(p) : p \in Params}
        \cup (Txs \X FieldNames)
        \cup (Txs \X {"or_signatures", "or_confirmations"})

NoRef == <<0, "none">>

NoTx ==
    [built |-> FALSE, inputs |-> NoRef, outputs |-> NoRef, signatures |-> NoRef,
     confirmations |-> NoRef, spent |-> NoRef]

NoCall == [op |-> "none", tx |-> 0, index |-> 0, key |-> 0, raised |-> "none"]

----------------------------------------------------------------------------
(* Transaction: derived properties *)

Transaction_fields == <<"inputs", "outputs", "signatures">>

\* the unsigned view declared with every field of Transaction, signatures included
UnsignedTransaction_fields_unsliced == Transaction_fields

\* UnsignedTransaction.fields = Transaction.fields[:-1]
UnsignedTransaction_fields == SubSeq(Transaction_fields, 1, Len(Transaction_fields) - 1)

\* rlp serialization of one declared field of Transaction t read from heap h
serialize_field(h, x, f) ==
    IF f = "inputs"
    THEN rlp_list([i \in 1..Len(h[x.inputs]) |->
            rlp_list(<<rlp_bytes(int_to_big_endian(h[x.inputs][i].blknum)),
                       rlp_bytes(int_to_big_endian(h[x.inputs][i].txindex)),
                       rlp_bytes(int_to_big_endian(h[x.inputs][i].oindex))>>)])
    ELSE IF f = "outputs"
    THEN rlp_list([i \in 1..Len(h[x.outputs]) |->
            rlp_list(<<rlp_bytes(h[x.outputs][i].owner),
                       rlp_bytes(int_to_big_endian(h[x.outputs][i].amount))>>)])
    ELSE rlp_list([i \in 1..Len(h[x.signatures]) |-> rlp_bytes(h[x.signatures][i])])

\* rlp.encode(obj, sedes): the fields the sedes declares, in declared order
rlp_encode(h, x, fields) ==
    rlp_list([k \in 1..Len(fields) |-> serialize_field(h, x, fields[k])])

\* Transaction.encoded
encoded_of(h, x) == rlp_encode(h, x, UnsignedTransaction_fields)

encoded(t) == encoded_of(heap, tx[t])

\* Transaction.hash
hash(t) == sha3(encoded(t))

\* Transaction.confirmation_hash
confirmation_hash(t) == sha3(hash(t))

\* Transaction.joined_signatures
joined_signatures(t) == Concat(heap[tx[t].signatures])

\* Transaction.joined_confirmations
joined_confirmations(t) == Concat(heap[tx[t].confirmations])

\* Transaction.merkle_leaf_data
merkle_leaf_data(t) == encoded(t) \o joined_signatures(t)

\* signers recovering against the confirmation hash instead of the hash
signers_from_confirmation_hash(t) ==
    CHOOSE s \in
        {[i \in 1..Len(heap[tx[t].signatures]) |->
            IF heap[tx[t].signatures][i] # NULL_SIGNATURE
            THEN get_signer(h, heap[tx[t].signatures][i])
            ELSE NULL_ADDRESS] : h \in {confirmation_hash(t)}} : TRUE

\* Transaction.signers
signers(t) ==
    CHOOSE s \in
        {[i \in 1..Len(heap[tx[t].signatures]) |->
            IF heap[tx[t].signatures][i] # NULL_SIGNATURE
            THEN get_signer(h, heap[tx[t].signatures][i])
            ELSE NULL_ADDRESS] : h \in {hash(t)}} : TRUE

\* is_deposit requiring the whole position of every input to be zero
is_deposit_by_position(t) ==
    \A i \in 1..Len(heap[tx[t].inputs]) :
        /\ heap[tx[t].inputs][i].blknum = 0
        /\ heap[tx[t].inputs][i].txindex = 0
        /\ heap[tx[t].inputs][i].oindex = 0

\* Transaction.is_deposit
is_deposit(t) == \A i \in 1..Len(heap[tx[t].inputs]) : heap[tx[t].inputs][i].blknum = 0

----------------------------------------------------------------------------
(* Transaction.__init__ *)

\* `arg or [default] * NUM_TXOS`: an empty list is falsy
or_default(arg, default) == IF arg # <<>> THEN arg ELSE Repeat(default, NUM_TXOS)

\* the object the local name `signatures` / `confirmations` is bound to after the
\* `or`: the argument itself, or the fresh default list
or_ref(h, t, p) ==
    IF h[Arg(p)] # <<>> THEN Arg(p)
    ELSE IF p = "signatures" THEN <<t, "or_signatures">>
    ELSE <<t, "or_confirmations">>

\* the field bound to the local list itself, without the [:] copy
slice_alias(t, p, local) == local

\* `local[:]`: a fresh list object owned by Transaction t
slice_copy(t, p, local) == <<t, p>>

\* Transaction(inputs, outputs, signatures, confirmations) for object t, called with
\* the lists bound to the four parameters
Construct(t) ==
    /\ ~tx[t].built
    /\ LET inputs == or_default(heap[Arg("inputs")], DEFAULT_INPUT)
           outputs == or_default(heap[Arg("outputs")], DEFAULT_OUTPUT)
           \* the fresh lists of the two `or`s, when they are taken
           h1 == [heap EXCEPT
                    ![<<t, "or_signatures">>] =
                        IF heap[Arg("signatures")] # <<>> THEN @
                        ELSE Repeat(NULL_SIGNATURE, NUM_TXOS),
                    ![<<t, "or_confirmations">>] =
                        IF heap[Arg("confirmations")] # <<>> THEN @
                        ELSE Repeat(NULL_SIGNATURE, NUM_TXOS)]
           signatures == or_ref(h1, t, "signatures")
           confirmations == or_ref(h1, t, "confirmations")
           padded_inputs == pad_list(inputs, DEFAULT_INPUT, NUM_TXOS)
           padded_outputs == pad_list(outputs, DEFAULT_OUTPUT, NUM_TXOS)
           outs == [i \in 1..Len(padded_outputs.value) |->
                        TransactionOutput(padded_outputs.value[i])]
           raised ==
               IF padded_inputs.raised # "none" THEN padded_inputs.raised
               ELSE IF padded_outputs.raised # "none" THEN padded_outputs.raised
               ELSE IF \E i \in 1..Len(outs) : outs[i].raised # "none" THEN "Exception"
               ELSE "none"
           self == [built |-> TRUE,
                    inputs |-> <<t, "inputs">>,
                    outputs |-> <<t, "outputs">>,
                    signatures |-> slice_copy(t, "signatures", signatures),
                    confirmations |-> slice_copy(t, "confirmations", confirmations),
                    spent |-> <<t, "spent">>]
           h2 == [h1 EXCEPT
                    ![self.inputs] = [i \in 1..Len(padded_inputs.value) |->
                                        TransactionInput(padded_inputs.value[i])],
                    ![self.outputs] = [i \in 1..Len(outs) |-> outs[i].value],
                    ![self.signatures] = h1[signatures],
                    ![self.confirmations] = h1[confirmations],
                    ![self.spent] = Repeat(FALSE, NUM_TXOS)]
       IN  /\ last' = [op |-> "init", tx |-> t, index |-> 0, key |-> 0, raised |-> raised]
           /\ IF raised # "none"
              THEN UNCHANGED <<heap, tx, signedBy, encoded0>>
              ELSE /\ heap' = h2
                   /\ tx' = [tx EXCEPT ![t] = self]
                   /\ signedBy' = [signedBy EXCEPT ![t] = Repeat(0, Len(h2[self.signatures]))]
                   /\ encoded0' = [encoded0 EXCEPT ![t] = encoded_of(h2, self)]
    /\ UNCHANGED calls

----------------------------------------------------------------------------
(* Transaction.sign / Transaction.confirm *)

\* the keys the callers sign with
Keys == {1, 2}

\* the indices the callers pass
Indices == (0 - NUM_TXOS - 1)..NUM_TXOS

\* the slot (counted from 1) a Python list of length n stores to for `index`,
\* 0 when list[index] = v raises IndexError
slot_of(n, index) ==
    IF index >= 0 /\ index < n THEN index + 1
    ELSE IF index < 0 /\ index >= 0 - n THEN n + index + 1
    ELSE 0

\* list[index] = v
setitem(list, index, v) ==
    IF slot_of(Len(list), index) = 0
    THEN [raised |-> "IndexError", value |-> list]
    ELSE [raised |-> "none", value |-> [list EXCEPT ![slot_of(Len(list), index)] = v]]

\* tx.sign(index, key), for the indices and keys callers pass
Sign(t) ==
    /\ tx[t].built
    /\ calls < MaxCalls
    /\ \E h \in {hash(t)}, index \in Indices, key \in Keys :
            LET r == setitem(heap[tx[t].signatures], index, sign(h, key))
            IN  /\ heap' = [heap EXCEPT ![tx[t].signatures] = r.value]
                /\ signedBy' =
                     IF r.raised = "none"
                     THEN [signedBy EXCEPT
                             ![t][slot_of(Len(heap[tx[t].signatures]), index)] = key]
                     ELSE signedBy
                /\ last' = [op |-> "sign", tx |-> t, index |-> index, key |-> key,
                            raised |-> r.raised]
    /\ calls' = calls + 1
    /\ UNCHANGED <<tx, encoded0>>

\* confirm storing its signature into the signatures list
Confirm_into_signatures(t) ==
    /\ tx[t].built
    /\ calls < MaxCalls
    /\ \E h \in {confirmation_hash(t)}, index \in Indices, key \in Keys :
            LET r == setitem(heap[tx[t].signatures], index, sign(h, key))
            IN  /\ heap' = [heap EXCEPT ![tx[t].signatures] = r.value]
                /\ last' = [op |-> "confirm", tx |-> t, index |-> index, key |-> key,
                            raised |-> r.raised]
    /\ calls' = calls + 1
    /\ UNCHANGED <<tx, signedBy, encoded0>>

\* tx.confirm(index, key), for the indices and keys callers pass
Confirm(t) ==
    /\ tx[t].built
    /\ calls < MaxCalls
    /\ \E h \in {confirmation_hash(t)}, index \in Indices, key \in Keys :
            LET r == setitem(heap[tx[t].confirmations], index, sign(h, key))
            IN  /\ heap' = [heap EXCEPT ![tx[t].confirmations] = r.value]
                /\ last' = [op |-> "confirm", tx |-> t, index |-> index, key |-> key,
                            raised |-> r.raised]
    /\ calls' = calls + 1
    /\ UNCHANGED <<tx, signedBy, encoded0>>

----------------------------------------------------------------------------
(* The lists callers construct Transactions from *)

RECURSIVE SeqsUpTo(_, _)
\* all sequences over S of length at most n
SeqsUpTo(S, n) ==
    IF n = 0 THEN {<<>>}
    ELSE LET shorter == SeqsUpTo(S, n - 1)
         IN  shorter \cup {Append(q, e) : q \in {x \in shorter : Len(x) = n - 1}, e \in S}

\* an owner as 20 bytes, and the same owner as 40 hexadecimal digits
OwnerBytes == [i \in 1..20 |-> 34]

OwnerHex == [i \in 1..40 |-> 49]

InputTriples == {<<0, 1, 1>>, <<1, 0, 0>>}

\* a byte string that is no address
OwnerInvalid == <<1, 2, 3>>

OutputPairs == {<<OwnerBytes, 2>>, <<OwnerHex, 1>>, <<OwnerInvalid, 1>>}

\* a signature some key made over some other message
ForeignSignature == sign(sha3(<<1>>), 3)

\* the first n of a supply of signatures
SomeSignatures(n) == [i \in 1..n |-> IF i % 2 = 1 THEN ForeignSignature ELSE NULL_SIGNATURE]

InitWith(ins, outs, sigs, confs) ==
    /\ heap = [r \in Refs |->
                IF r = Arg("inputs") THEN ins
                ELSE IF r = Arg("outputs") THEN outs
                ELSE IF r = Arg("signatures") THEN sigs
                ELSE IF r = Arg("confirmations") THEN confs
                ELSE <<>>]
    /\ tx = [t \in Txs |-> NoTx]
    /\ last = NoCall
    /\ signedBy = [t \in Txs |-> <<>>]
    /\ encoded0 = [t \in Txs |-> <<>>]
    /\ calls = 0

\* one Transaction, signed and confirmed: a few inputs and outputs, signature and
\* confirmation lists of every length up to MaxLen
Init ==
    \E io \in {<<<<>>, <<>>>>,
               <<<<<<0, 1, 1>>>>, <<<<OwnerHex, 1>>>>>>,
               <<<<<<1, 0, 0>>, <<0, 1, 1>>>>, <<<<OwnerBytes, 2>>>>>>},
       ns \in 0..MaxLen, nc \in 0..MaxLen :
        InitWith(io[1], io[2], SomeSignatures(ns), SomeSignatures(nc))

Next ==
    \/ Construct(1)
    \/ Sign(1)
    \/ Confirm(1)

Spec == Init /\ [][Next]_vars

\* two Transactions constructed from the same four list objects (all omitted, or
\* all supplied), each signed and confirmed
InitPair ==
    \/ InitWith(<<>>, <<>>, <<>>, <<>>)
    \/ \E n \in 1..MaxLen :
        InitWith(<<<<1, 0, 0>>>>, <<<<OwnerHex, 1>>>>, SomeSignatures(n), SomeSignatures(n))

NextPair ==
    \/ \E t \in Txs : Construct(t)
    \/ \E t \in Txs : Sign(t)
    \/ \E t \in Txs : Confirm(t)

SpecPair == InitPair /\ [][NextPair]_vars

\* construction alone: every inputs and outputs list up to MaxLen
InitCtor ==
    \E ins \in SeqsUpTo(InputTriples, MaxLen), outs \in SeqsUpTo(OutputPairs, MaxLen) :
        InitWith(ins, outs, <<>>, <<>>)

NextCtor == \E t \in Txs : Construct(t)

SpecCtor == InitCtor /\ [][NextCtor]_vars

----------------------------------------------------------------------------
(* The lists of a Transaction, and what the caller passed *)

inputs_of(t) == heap[tx[t].inputs]

outputs_of(t) == heap[tx[t].outputs]

signatures_of(t) == heap[tx[t].signatures]

confirmations_of(t) == heap[tx[t].confirmations]

spent_of(t) == heap[tx[t].spent]

\* the k-th of NUM_TXOS slots filled from the supplied list, then from the filler
supplied_or(list, k, filler) == IF k <= Len(list) THEN list[k] ELSE filler

----------------------------------------------------------------------------
(* C1 *)

\* C1: every constructed Transaction has exactly NUM_TXOS inputs, outputs,
\* signatures, confirmations and spent flags, in every reachable state
C1_AllListsHaveNumTxos ==
    \A t \in Txs :
        tx[t].built =>
            /\ Len(inputs_of(t)) = NUM_TXOS
            /\ Len(outputs_of(t)) = NUM_TXOS
            /\ Len(signatures_of(t)) = NUM_TXOS
            /\ Len(confirmations_of(t)) = NUM_TXOS
            /\ Len(spent_of(t)) = NUM_TXOS

----------------------------------------------------------------------------
(* C2 *)

\* C2: when more than NUM_TXOS inputs or more than NUM_TXOS outputs are supplied,
\* construction ends in ValueError and no Transaction comes to exist (so none
\* holds a list cut down to NUM_TXOS elements)
C2_TooLongIsRejected ==
    (Len(heap[Arg("inputs")]) > NUM_TXOS \/ Len(heap[Arg("outputs")]) > NUM_TXOS) =>
        /\ \A t \in Txs : ~tx[t].built
        /\ last.op = "init" => last.raised = "ValueError"

\* a construction with two inputs and three outputs was attempted and raised
C2_Witness ==
    /\ last.op = "init"
    /\ last.raised = "ValueError"
    /\ Len(heap[Arg("inputs")]) = NUM_TXOS
    /\ Len(heap[Arg("outputs")]) = NUM_TXOS + 1

----------------------------------------------------------------------------
(* C3 *)

\* C3 as stated: the inputs are the supplied triples in order followed by zero
\* inputs, and the outputs are the supplied (owner, amount) pairs, unchanged, in
\* order followed by (null address, 0)
C3_SuppliedUnchangedThenFiller ==
    \A t \in Txs :
        tx[t].built =>
            /\ inputs_of(t) =
                [k \in 1..NUM_TXOS |->
                    LET i == supplied_or(heap[Arg("inputs")], k, DEFAULT_INPUT)
                    IN  [blknum |-> i[1], txindex |-> i[2], oindex |-> i[3]]]
            /\ outputs_of(t) =
                [k \in 1..NUM_TXOS |->
                    LET o == supplied_or(heap[Arg("outputs")], k, DEFAULT_OUTPUT)
                    IN  [owner |-> o[1], amount |-> o[2]]]

\* C3, amended: the inputs are the supplied triples in order followed by zero
\* inputs; the outputs are the supplied pairs in order, each owner normalized to
\* its 20-byte address, followed by (null address, 0)
C3_SuppliedNormalizedThenFiller ==
    \A t \in Txs :
        tx[t].built =>
            /\ inputs_of(t) =
                [k \in 1..NUM_TXOS |->
                    LET i == supplied_or(heap[Arg("inputs")], k, DEFAULT_INPUT)
                    IN  [blknum |-> i[1], txindex |-> i[2], oindex |-> i[3]]]
            /\ outputs_of(t) =
                [k \in 1..NUM_TXOS |->
                    LET o == supplied_or(heap[Arg("outputs")], k, DEFAULT_OUTPUT)
                    IN  [owner |-> normalize_address(o[1]).value, amount |-> o[2]]]
            /\ \A k \in 1..NUM_TXOS : Len(outputs_of(t)[k].owner) = 20

\* a Transaction built from one input and one output whose owner came as
\* hexadecimal digits: one supplied element and one filler in each list
C3_Witness ==
    /\ tx[1].built
    /\ Len(heap[Arg("inputs")]) = 1
    /\ Len(heap[Arg("outputs")]) = 1
    /\ heap[Arg("outputs")][1][1] = OwnerHex
    /\ inputs_of(1)[2] = TransactionInput(DEFAULT_INPUT)
    /\ outputs_of(1)[1].owner # OwnerHex

----------------------------------------------------------------------------
(* C4 *)

\* what each constructed Transaction shows of its encoding and hashes
EncodingViews ==
    {[t |-> t, encoded |-> encoded(t), hash |-> hash(t),
      confirmation_hash |-> confirmation_hash(t)] : t \in {u \in Txs : tx[u].built}}

\* C4: in every reachable state, however a Transaction was signed and confirmed,
\* its encoded is what it was right after construction (and its hash the digest
\* of that), and two Transactions with equal inputs and outputs have equal
\* encoded, hash and confirmation_hash whatever their signatures and
\* confirmations are
C4_EncodedIgnoresSignatures ==
    \E views \in {EncodingViews} :
        \A a \in views :
            /\ a.encoded = encoded0[a.t]
            /\ a.hash = sha3(encoded0[a.t])
            /\ \A b \in views :
                (inputs_of(a.t) = inputs_of(b.t) /\ outputs_of(a.t) = outputs_of(b.t)) =>
                    /\ a.encoded = b.encoded
                    /\ a.hash = b.hash
                    /\ a.confirmation_hash = b.confirmation_hash

\* two Transactions with the same inputs and outputs, one signed and confirmed,
\* the other neither
C4_Witness ==
    /\ tx[1].built
    /\ tx[2].built
    /\ calls = MaxCalls
    /\ inputs_of(1) = inputs_of(2)
    /\ outputs_of(1) = outputs_of(2)
    /\ signatures_of(1) # signatures_of(2)
    /\ confirmations_of(1) # confirmations_of(2)

----------------------------------------------------------------------------
(* C5 *)

\* C5: for each signature slot, the signer is the null address when the slot
\* holds the null signature, otherwise the address recovered from the hash and
\* the slot's signature, and that is the address of the key of the latest sign
\* stored in the slot
C5_SignersFollowSignatures ==
    \A t \in Txs :
        tx[t].built =>
            \E sg \in {signers(t)}, h \in {hash(t)} :
                /\ Len(sg) = Len(signatures_of(t))
                /\ \A i \in 1..Len(signatures_of(t)) :
                    /\ signatures_of(t)[i] = NULL_SIGNATURE => sg[i] = NULL_ADDRESS
                    /\ signatures_of(t)[i] # NULL_SIGNATURE =>
                            sg[i] = get_signer(h, signatures_of(t)[i])
                    /\ signedBy[t][i] # 0 =>
                            /\ signatures_of(t)[i] # NULL_SIGNATURE
                            /\ sg[i] = privtoaddr(signedBy[t][i])

\* a default-constructed Transaction whose slot 0 was just signed with key 2 in
\* the second sign call, slot 1 never signed
C5_Witness ==
    /\ tx[1].built
    /\ heap[Arg("signatures")] = <<>>
    /\ calls = 2
    /\ last = [op |-> "sign", tx |-> 1, index |-> 0, key |-> 2, raised |-> "none"]
    /\ signedBy[1] = <<2, 0>>
    /\ signers(1) = <<privtoaddr(2), NULL_ADDRESS>>

----------------------------------------------------------------------------
(* C6 *)

\* C6: a sign or confirm call with an index outside 0..NUM_TXOS-1 raises
\* IndexError and changes no list
C6_OutOfRangeIndexFails ==
    [][(/\ calls' = calls + 1
        /\ last'.op \in {"sign", "confirm"}
        /\ last'.index \notin 0..(NUM_TXOS - 1))
            => (last'.raised = "IndexError" /\ heap' = heap)]_vars

----------------------------------------------------------------------------
(* C7 *)

\* C7: is_deposit is true exactly when every input has blknum 0, which is exactly
\* when every supplied input triple has blknum 0 (true when none was supplied),
\* in every reachable state, signed and confirmed or not
C7_IsDepositIffAllBlknumZero ==
    \A t \in Txs :
        tx[t].built =>
            /\ is_deposit(t) <=> (\A i \in 1..NUM_TXOS : inputs_of(t)[i].blknum = 0)
            /\ is_deposit(t) <=>
                    (\A k \in 1..Len(heap[Arg("inputs")]) : heap[Arg("inputs")][k][1] = 0)
            /\ heap[Arg("inputs")] = <<>> => is_deposit(t)

\* a deposit whose first input has blknum 0 and a nonzero txindex and oindex,
\* after a successful sign
C7_Witness ==
    /\ tx[1].built
    /\ is_deposit(1)
    /\ inputs_of(1)[1] = [blknum |-> 0, txindex |-> 1, oindex |-> 1]
    /\ last.op = "sign"
    /\ last.raised = "none"

----------------------------------------------------------------------------
(* C8 *)

\* C8: in every reachable state merkle_leaf_data is encoded followed by
\* signatures[0] followed by signatures[1]
C8_LeafIsEncodedThenTwoSignatures ==
    \A t \in Txs :
        tx[t].built =>
            /\ Len(signatures_of(t)) >= NUM_TXOS
            /\ merkle_leaf_data(t) = encoded(t) \o signatures_of(t)[1] \o signatures_of(t)[2]

----------------------------------------------------------------------------
(* C9 *)

\* the lists of Transaction t other than `field` are the same before and after
\* the step, and so are the references t holds
OtherListsUnchanged(t, field) ==
    /\ tx' = tx
    /\ \A f \in FieldNames \ {field} : heap'[tx[t][f]] = heap[tx[t][f]]

\* the list `field` of Transaction t differs after the step at most in the slot
\* of `index`
OnlySlotChanged(t, field, index) ==
    /\ Len(heap'[tx[t][field]]) = Len(heap[tx[t][field]])
    /\ \A j \in 1..Len(heap[tx[t][field]]) :
        j # index + 1 => heap'[tx[t][field]][j] = heap[tx[t][field]][j]

\* C9: a sign call with index 0 or 1 changes at most signatures[index], to the
\* signature over hash, and no other list of the Transaction; a confirm call with
\* index 0 or 1 changes at most confirmations[index], to the signature over
\* confirmation_hash, and no other list, so signers and merkle_leaf_data stay;
\* spent is all false from construction on
C9_SignAndConfirmFrame ==
    [][\A t \in Txs :
        /\ (/\ calls' = calls + 1
            /\ last'.op = "sign"
            /\ last'.tx = t
            /\ last'.index \in 0..(NUM_TXOS - 1)) =>
                /\ OtherListsUnchanged(t, "signatures")
                /\ OnlySlotChanged(t, "signatures", last'.index)
                /\ last'.raised = "none" =>
                        heap'[tx[t].signatures][last'.index + 1] = sign(hash(t), last'.key)
        /\ (/\ calls' = calls + 1
            /\ last'.op = "confirm"
            /\ last'.tx = t
            /\ last'.index \in 0..(NUM_TXOS - 1)) =>
                /\ OtherListsUnchanged(t, "confirmations")
                /\ OnlySlotChanged(t, "confirmations", last'.index)
                /\ last'.raised = "none" =>
                        heap'[tx[t].confirmations][last'.index + 1]
                            = sign(confirmation_hash(t), last'.key)
                /\ signers(t)' = signers(t)
                /\ merkle_leaf_data(t)' = merkle_leaf_data(t)
        /\ tx'[t].built => heap'[tx'[t].spent] = <<FALSE, FALSE>>
      ]_vars

\* slot 0 was signed earlier and confirm(1, key) has just stored a confirmation
C9_Witness ==
    /\ tx[1].built
    /\ last.op = "confirm"
    /\ last.index = 1
    /\ last.raised = "none"
    /\ signedBy[1][1] # 0
    /\ confirmations_of(1)[2] = sign(confirmation_hash(1), last.key)
    /\ spent_of(1) = <<FALSE, FALSE>>

----------------------------------------------------------------------------
(* C10 *)

\* C10: no list of a Transaction is a list of another Transaction or one of the
\* lists the constructor was called with, and a sign or confirm call on one
\* Transaction changes no list of any other Transaction and none of the lists
\* the constructor was called with
C10_NoSharedLists ==
    [][/\ \A t \in Txs, f \in FieldNames :
            tx'[t].built =>
                /\ tx'[t][f] \notin {Arg(p) : p \in Params}
                /\ \A u \in Txs \ {t}, g \in FieldNames :
                        tx'[u].built => tx'[t][f] # tx'[u][g]
       /\ (calls' = calls + 1 /\ last'.op \in {"sign", "confirm"}) =>
                /\ \A u \in Txs \ {last'.tx}, f \in FieldNames :
                        tx[u].built => heap'[tx[u][f]] = heap[tx[u][f]]
                /\ \A p \in Params : heap'[Arg(p)] = heap[Arg(p)]
      ]_vars

\* both Transactions were built from the same supplied lists, and a sign on the
\* first has changed its signatures while the second's and the caller's are as
\* supplied
C10_Witness ==
    /\ tx[1].built
    /\ tx[2].built
    /\ heap[Arg("signatures")] # <<>>
    /\ last.op = "sign"
    /\ last.tx = 1
    /\ last.raised = "none"
    /\ signatures_of(1) # heap[Arg("signatures")]
    /\ signatures_of(2) = heap[Arg("signatures")]

====
